---- MODULE Spec2Model ----
(***************************************************************************)
(* A model of examples/write.rs: the command line program that builds a    *)
(* ZIP archive from files and directories.  The program is sequential; its *)
(* state is main's position, the call stack of add_file_to_archive and     *)
(* add_directory_to_archive, the archive writer's entries, and the two     *)
(* console streams.  Strings are sequences of one-character strings, so    *)
(* that joining, splitting and suffixing paths is computed, not assumed.   *)
(* The build modelled is the cfg(unix) one; names on disk are valid UTF-8. *)
(***************************************************************************)
EXTENDS Integers, Sequences, FiniteSets, TLC

\* The largest number of command line arguments after the program name.
MaxArgs == 3

\* The number of symbolic links the host follows while it resolves one path
\* before it gives up with ELOOP (40 on Linux; scaled down here).
MaxSymlinks == 2

\* The largest number of arguments of a command line over the linked tree.
MaxLinkArgs == 2

---------------------------------------------------------------------------
(* Strings *)

SLASH == "/"

ZstdFlag == <<"-", "-", "z", "s", "t", "d">>

ProgName == <<"w">>

\* The arguments a command line is drawn from: the flag, a path that does
\* not exist before the run, a directory, a file three levels deep, a
\* special file, and a second path that does not exist.
ArgAlphabet ==
    { ZstdFlag,
      <<"o">>,
      <<"x">>,
      <<"x", "/", "d", "/", "f">>,
      <<"x", "/", "d", "/", "s">>,
      <<"n">> }

\* The arguments of the command lines that walk the linked tree: a path that
\* does not exist before the run and the directory that holds a link to
\* itself.
LinkArgAlphabet ==
    { <<"o">>,
      <<"y">> }

---------------------------------------------------------------------------
(* The host file system, relative to the working directory (node 1).       *)
(* 0 stands for "no such node".  size is a file's length in chunks of      *)
(* std::io::copy's buffer; target is the node a symbolic link names.  The  *)
(* directory y holds a file, a link l to y itself and a link b to nothing. *)

FS ==
    <<  [name |-> <<".">>,       parent |-> 0, kind |-> "dir",   size |-> 0, target |-> 0],
        [name |-> <<"x">>,       parent |-> 1, kind |-> "dir",   size |-> 0, target |-> 0],
        [name |-> <<"d">>,       parent |-> 2, kind |-> "dir",   size |-> 0, target |-> 0],
        [name |-> <<"f">>,       parent |-> 3, kind |-> "file",  size |-> 2, target |-> 0],
        [name |-> <<"s">>,       parent |-> 3, kind |-> "other", size |-> 0, target |-> 0],
        [name |-> <<"g", "\\">>, parent |-> 2, kind |-> "file",  size |-> 1, target |-> 0],
        [name |-> <<"y">>,       parent |-> 1, kind |-> "dir",   size |-> 0, target |-> 0],
        [name |-> <<"h">>,       parent |-> 7, kind |-> "file",  size |-> 1, target |-> 0],
        [name |-> <<"l">>,       parent |-> 7, kind |-> "link",  size |-> 0, target |-> 7],
        [name |-> <<"b">>,       parent |-> 7, kind |-> "link",  size |-> 0, target |-> 0] >>

Nodes == DOMAIN FS

ChildNodes(n) == { m \in Nodes : FS[m].parent = n }

\* The index of the first "/" of p at or after k, or Len(p) + 1.
RECURSIVE FirstSlash(_, _)
FirstSlash(p, k) ==
    IF k > Len(p) \/ p[k] = SLASH THEN k ELSE FirstSlash(p, k + 1)

\* std::path::Path::components for a relative path: the segments between
\* slashes, with empty segments and "." dropped.
RECURSIVE Components(_)
Components(p) ==
    IF p = <<>> THEN <<>>
    ELSE LET k    == FirstSlash(p, 1)
             head == SubSeq(p, 1, k - 1)
             rest == SubSeq(p, k + 1, Len(p))
         IN  IF head = <<>> \/ head = <<".">>
             THEN Components(rest)
             ELSE <<head>> \o Components(rest)

\* A host that follows any number of links.
RECURSIVE DescendMutant(_, _, _)
DescendMutant(n, cs, links) ==
    IF cs = <<>> THEN n
    ELSE IF n = 0 \/ FS[n].kind # "dir" THEN 0
    ELSE LET hit == { m \in Nodes : FS[m].parent = n /\ FS[m].name = Head(cs) }
         IN  IF hit = {} THEN 0
             ELSE LET m == CHOOSE m \in hit : TRUE
                  IN  IF FS[m].kind = "link"
                      THEN DescendMutant(FS[m].target, Tail(cs), links)
                      ELSE DescendMutant(m, Tail(cs), links)

\* Resolution of the segments cs from directory node n, as stat(2) does it
\* for Path::is_file, Path::is_dir, fs::metadata, File::open and
\* fs::read_dir: every link met is followed, the last one included; links
\* is the number followed so far, and the resolution fails at a link to
\* nothing and at the link after the MaxSymlinks-th.
RECURSIVE Descend(_, _, _)
Descend(n, cs, links) ==
    IF cs = <<>> THEN n
    ELSE IF n = 0 \/ FS[n].kind # "dir" THEN 0
    ELSE LET hit == { m \in Nodes : FS[m].parent = n /\ FS[m].name = Head(cs) }
         IN  IF hit = {} THEN 0
             ELSE LET m == CHOOSE m \in hit : TRUE
                  IN  IF FS[m].kind = "link"
                      THEN IF links >= MaxSymlinks THEN 0
                           ELSE Descend(FS[m].target, Tail(cs), links + 1)
                      ELSE Descend(m, Tail(cs), links)

\* The node a path names: none for the empty path, for an absolute path
\* (nothing of this file system is reachable from the root) and for a path
\* with a trailing slash after something that is not a directory.
Lookup(p) ==
    IF p = <<>> \/ Head(p) = SLASH THEN 0
    ELSE LET n == Descend(1, Components(p), 0)
         IN  IF n # 0 /\ p[Len(p)] = SLASH /\ FS[n].kind # "dir" THEN 0 ELSE n

KindOf(n) == IF n = 0 THEN "missing" ELSE FS[n].kind

FS_KindOf(p) == KindOf(Lookup(p))

\* Path::file_name: the last segment of the path.
LastComponent(p) ==
    LET cs == Components(p) IN IF cs = <<>> THEN <<>> ELSE cs[Len(cs)]

\* Path::join (what DirEntry::path returns for a listed name).
PathJoin(dir, name) ==
    IF dir # <<>> /\ dir[Len(dir)] = SLASH THEN dir \o name
    ELSE dir \o <<SLASH>> \o name

---------------------------------------------------------------------------
VARIABLES
    args,               \* env::args(): the program name and the arguments
    pc,                 \* main's position
    use_zstd,           \* main's flag
    positional_args,    \* main's positional arguments
    compression_method, \* "Deflate", "Zstd", or "unset" before line 32
    outputCreated,      \* File::create(output_path) has succeeded
    i,                  \* the index in input_paths of the input at hand
    stack,              \* the frames of the add_* calls, the innermost last
    entries,            \* the archive writer's entries, in opening order
    finishCalls,        \* how many times archive.finish() returned Ok
    stdout,             \* the lines printed with println!
    stderr,             \* the lines printed with eprintln! and the final diagnostic
    err,                \* the fatal error that ended the run, or "none"
    exit_code           \* the process exit status, or 0 - 1 while running

vars == << args, pc, use_zstd, positional_args, compression_method,
           outputCreated, i, stack, entries, finishCalls, stdout, stderr,
           err, exit_code >>

output_path == positional_args[1]

input_paths == Tail(positional_args)

---------------------------------------------------------------------------
(* main *)

\* Lines 12-21: "--zstd" anywhere sets the flag; every other argument is
\* positional, in order.
RECURSIVE ParseFlags(_)
ParseFlags(as) ==
    IF as = <<>> THEN [zstd |-> FALSE, pos |-> <<>>]
    ELSE LET r == ParseFlags(Tail(as))
         IN  IF Head(as) = ZstdFlag
             THEN [zstd |-> TRUE, pos |-> r.pos]
             ELSE [zstd |-> r.zstd, pos |-> <<Head(as)>> \o r.pos]

\* Line 23: the number of positional arguments below which main prints the
\* usage and exits.
TooFewArgsMutant(pos) == Len(pos) < 1
TooFewArgs(pos) == Len(pos) < 2

\* Lines 32-36.
ChooseMethodMutant(zstd) == "Deflate"
ChooseMethodStoreMutant(zstd) == IF zstd THEN "Zstd" ELSE "Store"
ChooseMethod(zstd) == IF zstd THEN "Zstd" ELSE "Deflate"

Line(kind, text) == [kind |-> kind, text |-> text]

ArgLists == UNION { [1..n -> ArgAlphabet] : n \in 0..MaxArgs }

Init ==
    /\ args \in { <<ProgName>> \o a : a \in ArgLists }
    /\ pc = "parse"
    /\ use_zstd = FALSE
    /\ positional_args = <<>>
    /\ compression_method = "unset"
    /\ outputCreated = FALSE
    /\ i = 1
    /\ stack = <<>>
    /\ entries = <<>>
    /\ finishCalls = 0
    /\ stdout = <<>>
    /\ stderr = <<>>
    /\ err = "none"
    /\ exit_code = 0 - 1

LinkArgLists == UNION { [1..n -> LinkArgAlphabet] : n \in 0..MaxLinkArgs }

\* The program started on a command line over the linked tree.
InitLinks ==
    /\ args \in { <<ProgName>> \o a : a \in LinkArgLists }
    /\ pc = "parse"
    /\ use_zstd = FALSE
    /\ positional_args = <<>>
    /\ compression_method = "unset"
    /\ outputCreated = FALSE
    /\ i = 1
    /\ stack = <<>>
    /\ entries = <<>>
    /\ finishCalls = 0
    /\ stdout = <<>>
    /\ stderr = <<>>
    /\ err = "none"
    /\ exit_code = 0 - 1

\* A `?` that returns Err, here or in a callee: the error unwinds every
\* frame, main returns it, and the runtime prints it and exits with 1.
FailMutant(kind) ==
    /\ err' = kind
    /\ stderr' = Append(stderr, Line("error", <<kind>>))
    /\ UNCHANGED << pc, exit_code, stack >>
Fail(kind) ==
    /\ pc' = "failed"
    /\ err' = kind
    /\ exit_code' = 1
    /\ stack' = <<>>
    /\ stderr' = Append(stderr, Line("error", <<kind>>))

\* Lines 9-36: parse the arguments; with fewer than two positional ones
\* print the usage and exit(1).
ParseArgs ==
    /\ pc = "parse"
    /\ LET r == ParseFlags(Tail(args))
       IN  /\ use_zstd' = r.zstd
           /\ positional_args' = r.pos
           /\ IF TooFewArgs(r.pos)
              THEN /\ stderr' = Append(stderr, Line("usage", args[1]))
                   /\ exit_code' = 1
                   /\ pc' = "exited"
                   /\ UNCHANGED compression_method
              ELSE /\ compression_method' = ChooseMethod(r.zstd)
                   /\ pc' = "create"
                   /\ UNCHANGED << stderr, exit_code >>
    /\ UNCHANGED << args, outputCreated, i, stack, entries, finishCalls,
                    stdout, err >>

\* Lines 41-43: File::create fails on a directory (and may fail on anything);
\* on success the path names an empty regular file from now on.
CreateOutput ==
    /\ pc = "create"
    /\ \E ok \in (IF FS_KindOf(output_path) = "dir" THEN {FALSE} ELSE BOOLEAN) :
          IF ok
          THEN /\ outputCreated' = TRUE
               /\ pc' = "loop"
               /\ UNCHANGED << stack, stderr, err, exit_code >>
          ELSE /\ Fail("File::create")
               /\ UNCHANGED outputCreated
    /\ UNCHANGED << args, use_zstd, positional_args, compression_method, i,
                    entries, finishCalls, stdout >>

---------------------------------------------------------------------------
(* What the program sees of the file system while it runs.  Once created,   *)
(* the output path names an empty regular file (created or truncated by    *)
(* File::create; its buffered content is not yet on disk when it is read). *)
(* No path of ArgAlphabet creates the output inside a listed directory.    *)

IsOutput(p) ==
    /\ outputCreated
    /\ \/ p = output_path
       \/ LET n == Lookup(p) IN n # 0 /\ n = Lookup(output_path)

\* Path::is_file and Path::is_dir.
IsFileMutant(p) == IsOutput(p) \/ FS_KindOf(p) \in {"file", "other"}
IsFile(p) == IsOutput(p) \/ FS_KindOf(p) = "file"

IsDir(p) == ~IsOutput(p) /\ FS_KindOf(p) = "dir"

\* The number of chunks std::io::copy reads from the file.
FileSize(p) == IF IsOutput(p) THEN 0 ELSE FS[Lookup(p)].size

\* The names fs::read_dir yields for a directory, in no particular order.
ListNames(p) == { FS[m].name : m \in ChildNodes(Lookup(p)) }

---------------------------------------------------------------------------
(* The call stack *)

Frame(fn, at, path, apath) ==
    [fn |-> fn, pc |-> at, path |-> path, apath |-> apath,
     remaining |-> {}, ePath |-> <<>>, eApath |-> <<>>, copied |-> 0, eidx |-> 0,
     mtime |-> "unset"]

\* add_file_to_archive(archive, file_path, archive_path, compression_method)
FileFrame(file_path, archive_path) == Frame("file", "metadata", file_path, archive_path)

\* add_directory_to_archive(archive, dir_path, base_path, compression_method)
DirFrame(dir_path, base_path) == Frame("dir", "read_dir", dir_path, base_path)

Top == stack[Len(stack)]

InFrame(fn, at) == pc = "loop" /\ stack # <<>> /\ Top.fn = fn /\ Top.pc = at

SetTop(f) == [stack EXCEPT ![Len(stack)] = f]

Pop == SubSeq(stack, 1, Len(stack) - 1)

\* Ok(()) from a callee: back in the caller; in main the for loop of line 45
\* moves to the next input.
Return ==
    /\ stack' = Pop
    /\ i' = IF Len(stack) = 1 THEN i + 1 ELSE i

runVars == << args, use_zstd, positional_args, compression_method, outputCreated >>

---------------------------------------------------------------------------
(* main, continued *)

\* Line 51: the archive path of a top-level file.
TopFileArchivePathMutant(path) == path
TopFileArchivePath(path) == LastComponent(path)

\* Line 55: the base path a top-level directory is walked with.
TopBasePathMutant(path) == LastComponent(path)
TopBasePath(path) == <<>>

\* Line 45: the for loop has gone through every input.
InputsExhaustedMutant == i >= Len(input_paths)
InputsExhausted == i > Len(input_paths)

\* Lines 56-61: an input that is neither a file nor a directory gets a
\* warning, and the loop goes on.
SkipInputMutant(path) ==
    /\ stderr' = Append(stderr, Line("warning", path))
    /\ pc' = "finish"
    /\ UNCHANGED << i, stack >>
SkipInput(path) ==
    /\ stderr' = Append(stderr, Line("warning", path))
    /\ pc' = pc
    /\ i' = i + 1
    /\ UNCHANGED stack

\* Lines 45-62: the next input path, or the end of the loop.
MainLoop ==
    /\ pc = "loop"
    /\ stack = <<>>
    /\ IF InputsExhausted
       THEN /\ pc' = "finish"
            /\ UNCHANGED << i, stack, stderr >>
       ELSE LET path == input_paths[i]
            IN  IF IsFile(path)
                THEN /\ stack' = <<FileFrame(path, TopFileArchivePath(path))>>
                     /\ UNCHANGED << pc, i, stderr >>
                ELSE IF IsDir(path)
                THEN /\ stack' = <<DirFrame(path, TopBasePath(path))>>
                     /\ UNCHANGED << pc, i, stderr >>
                ELSE SkipInput(path)
    /\ UNCHANGED << runVars, entries, finishCalls, stdout, err, exit_code >>

\* Line 64: archive.finish()?
Finish ==
    /\ pc = "finish"
    /\ \E ok \in BOOLEAN :
          IF ok
          THEN /\ finishCalls' = finishCalls + 1
               /\ pc' = "report"
               /\ UNCHANGED << stack, stderr, err, exit_code >>
          ELSE /\ Fail("archive.finish")
               /\ UNCHANGED finishCalls
    /\ UNCHANGED << runVars, i, entries, stdout >>

\* Lines 65-66: the success message, and Ok(()).
ReportMutant ==
    /\ pc = "report"
    /\ stdout' = IF entries = <<>> THEN stdout
                 ELSE Append(stdout, Line("success", output_path))
    /\ pc' = "done"
    /\ exit_code' = 0
    /\ UNCHANGED << runVars, i, stack, entries, finishCalls, stderr, err >>
Report ==
    /\ pc = "report"
    /\ stdout' = Append(stdout, Line("success", output_path))
    /\ pc' = "done"
    /\ exit_code' = 0
    /\ UNCHANGED << runVars, i, stack, entries, finishCalls, stderr, err >>

---------------------------------------------------------------------------
(* The archive writer (ZipArchiveWriter and its builders), as far as the    *)
(* program drives it.  An entry records what was done to it:               *)
(*   data      chunks written into it through the encoder                  *)
(*   dataDone  times the data writer's finish() returned Ok                *)
(*   codecFin  times the encoder's finish() returned Ok                    *)
(*   entryFin  times the entry's finish() returned Ok                      *)
(*   open      opened and not yet finalized                                *)
(*   mtime     what last_modified(..) was given                            *)
(*   encoder   the encoder the program wrapped around the entry, if any    *)
(*   perms     what unix_permissions(..) was given, if anything            *)
(* src and top say which path and which top-level input it was made for.   *)

\* Lines 174-178: the cfg(unix) build always has a mode to give.
get_unix_permissions == "Some(mode)"

OpenEntries(es) == { k \in DOMAIN es : es[k].open }

\* start()/create() refuse an empty name and a second open entry.
CanOpen(es, path) == path # <<>> /\ OpenEntries(es) = {}

\* new_file(path).compression_method(m)...start()
NewFileEntry(path, method, mtime, src, top) ==
    [kind |-> "file", path |-> path, method |-> method, src |-> src, top |-> top,
     mtime |-> mtime, perms |-> get_unix_permissions, encoder |-> "none",
     data |-> 0, dataDone |-> 0, codecFin |-> 0, entryFin |-> 0, open |-> TRUE]

\* new_dir(path)...create(): written and finalized in one call.
NewDirEntry(path, mtime, src, top) ==
    [kind |-> "dir", path |-> path, method |-> "Store", src |-> src, top |-> top,
     mtime |-> mtime, perms |-> get_unix_permissions, encoder |-> "none",
     data |-> 0, dataDone |-> 0, codecFin |-> 0, entryFin |-> 1, open |-> FALSE]

---------------------------------------------------------------------------
(* add_file_to_archive *)

fileFrameVars == << runVars, i, finishCalls, stdout >>

\* One fallible call of the file path that changes nothing but the position.
FileStep(at, next, what) ==
    /\ InFrame("file", at)
    /\ \E ok \in BOOLEAN :
          IF ok
          THEN /\ stack' = SetTop([Top EXCEPT !.pc = next])
               /\ UNCHANGED << pc, stderr, err, exit_code >>
          ELSE Fail(what)
    /\ UNCHANGED << fileFrameVars, entries >>

\* Line 85: fs::metadata(file_path)?
FileMetadata == FileStep("metadata", "mtime", "fs::metadata")

\* Lines 69-77: get_modification_time fails when the time stamp cannot be
\* read or lies before the epoch; the caller's ? returns the error.
MtimeStep(fn, at, next) ==
    /\ InFrame(fn, at)
    /\ \E ok \in BOOLEAN :
          IF ok
          THEN /\ stack' = SetTop([Top EXCEPT !.pc = next, !.mtime = "Some"])
               /\ UNCHANGED << pc, stderr, err, exit_code >>
          ELSE Fail("get_modification_time")
    /\ UNCHANGED << fileFrameVars, entries >>

\* Line 86: get_modification_time(&metadata)?
FileMtimeMutant ==
    /\ InFrame("file", "mtime")
    /\ \E ok \in BOOLEAN :
          stack' = SetTop([Top EXCEPT !.pc = "open",
                                      !.mtime = IF ok THEN "Some" ELSE "None"])
    /\ UNCHANGED << fileFrameVars, entries, pc, stderr, err, exit_code >>
FileMtime == MtimeStep("file", "mtime", "open")

\* Line 98: fs::File::open(file_path)?
FileOpen == FileStep("open", "start", "File::open")

\* Lines 88-95 and 99: the builder is configured, then start() opens the
\* entry; the writer refuses it while another entry is open.
FileStart ==
    /\ InFrame("file", "start")
    /\ IF ~CanOpen(entries, Top.apath)
       THEN /\ Fail("EntryOpenError")
            /\ UNCHANGED entries
       ELSE \E ok \in BOOLEAN :
               IF ok
               THEN /\ entries' = Append(entries,
                          NewFileEntry(Top.apath, compression_method, Top.mtime,
                                       Top.path, i))
                    /\ stack' = SetTop([Top EXCEPT !.pc = "encoder",
                                                   !.eidx = Len(entries) + 1])
                    /\ UNCHANGED << pc, stderr, err, exit_code >>
               ELSE /\ Fail("start")
                    /\ UNCHANGED entries
    /\ UNCHANGED fileFrameVars

\* Lines 100-104, 110-112 and 118-120: the match on the method.  DeflateEncoder::new
\* cannot fail, zstd::Encoder::new can, any other method is refused.
\* Lines 102-103 and 111: the encoder of each arm of the match.
EncoderFor(method) ==
    IF method = "Deflate" THEN "flate2::DeflateEncoder" ELSE "zstd::Encoder"

FileEncoder ==
    /\ InFrame("file", "encoder")
    /\ IF compression_method \notin {"Deflate", "Zstd"}
       THEN /\ Fail("Unsupported compression method")
            /\ UNCHANGED entries
       ELSE \E ok \in (IF compression_method = "Zstd" THEN BOOLEAN ELSE {TRUE}) :
               IF ok
               THEN /\ entries' = [entries EXCEPT ![Top.eidx].encoder =
                                       EncoderFor(compression_method)]
                    /\ stack' = SetTop([Top EXCEPT !.pc = "copy"])
                    /\ UNCHANGED << pc, stderr, err, exit_code >>
               ELSE /\ Fail("zstd::Encoder::new")
                    /\ UNCHANGED entries
    /\ UNCHANGED fileFrameVars

\* Lines 105 and 113: std::io::copy, one chunk per step; a read or a write
\* may fail; at the end of the file the copy returns.
FileCopy ==
    /\ InFrame("file", "copy")
    /\ \E ok \in BOOLEAN :
          IF ~ok
          THEN /\ Fail("io::copy")
               /\ UNCHANGED entries
          ELSE /\ IF Top.copied < FileSize(Top.path)
                  THEN /\ entries' = [entries EXCEPT ![Top.eidx].data = @ + 1]
                       /\ stack' = SetTop([Top EXCEPT !.copied = @ + 1])
                  ELSE /\ stack' = SetTop([Top EXCEPT !.pc = "writer_finish"])
                       /\ UNCHANGED entries
               /\ UNCHANGED << pc, stderr, err, exit_code >>
    /\ UNCHANGED fileFrameVars

\* One fallible finish call on the entry at hand.
FinishStep(at, next, what, field, closes) ==
    /\ InFrame("file", at)
    /\ \E ok \in BOOLEAN :
          IF ok
          THEN /\ entries' = [entries EXCEPT ![Top.eidx][field] = @ + 1,
                                             ![Top.eidx].open = @ /\ ~closes]
               /\ stack' = SetTop([Top EXCEPT !.pc = next])
               /\ UNCHANGED << pc, stderr, err, exit_code >>
          ELSE /\ Fail(what)
               /\ UNCHANGED entries
    /\ UNCHANGED fileFrameVars

\* Lines 106 and 114: writer.finish()?
FileWriterFinishMutant ==
    FinishStep("writer_finish", "entry_finish", "writer.finish", "dataDone", FALSE)
FileWriterFinish ==
    FinishStep("writer_finish", "encoder_finish", "writer.finish", "dataDone", FALSE)

\* Lines 107 and 115: encoder.finish()?  (the codec's finalize)
FileEncoderFinish ==
    FinishStep("encoder_finish", "entry_finish", "encoder.finish", "codecFin", FALSE)

\* Lines 108 and 116: entry.finish(output)?  (the entry's finalize)
FileEntryFinishMutant ==
    FileStep("entry_finish", "print", "entry.finish")
FileEntryFinish ==
    FinishStep("entry_finish", "print", "entry.finish", "entryFin", TRUE)

\* Lines 123-124: the progress line, and Ok(()).
FileReport ==
    /\ InFrame("file", "print")
    /\ stdout' = Append(stdout, Line("adding", Top.apath))
    /\ Return
    /\ UNCHANGED << runVars, pc, entries, finishCalls, stderr, err, exit_code >>

---------------------------------------------------------------------------
(* add_directory_to_archive *)

\* Lines 141-145: the archive path of a listed name.
JoinArchivePathMutant(base_path, name_str) == name_str
JoinArchivePathSlashMutant(base_path, name_str) == base_path \o <<SLASH>> \o name_str
JoinArchivePath(base_path, name_str) ==
    IF base_path = <<>> THEN name_str
    ELSE base_path \o <<SLASH>> \o name_str

\* Line 154: the archive path of a directory entry.
DirArchivePathMutant(archive_path) == archive_path
DirArchivePath(archive_path) == archive_path \o <<SLASH>>

\* Line 133: fs::read_dir(dir_path)?
DirReadDir ==
    /\ InFrame("dir", "read_dir")
    /\ \E ok \in BOOLEAN :
          IF ok
          THEN /\ IsDir(Top.path)
               /\ stack' = SetTop([Top EXCEPT !.pc = "next",
                                              !.remaining = ListNames(Top.path)])
               /\ UNCHANGED << pc, stderr, err, exit_code, i >>
          ELSE /\ Fail("fs::read_dir")
               /\ UNCHANGED i
    /\ UNCHANGED << runVars, entries, finishCalls, stdout >>

\* Lines 135-149 and 171: the iterator's next entry, in whatever order the
\* file system lists them, or the end of the loop and Ok(()).  A file is
\* handed to add_file_to_archive, a directory goes on to lines 150-167, and
\* anything else falls through both tests to the next iteration.
DirNextMutant ==
    /\ InFrame("dir", "next")
    /\ IF Top.remaining = {}
       THEN /\ Return
            /\ UNCHANGED << pc, stderr, err, exit_code >>
       ELSE \E name \in Top.remaining, ok \in BOOLEAN :
               IF ~ok
               THEN /\ Fail("read_dir entry")
                    /\ UNCHANGED i
               ELSE LET path         == PathJoin(Top.path, name)
                        archive_path == JoinArchivePath(Top.apath, name)
                        rest         == Top.remaining \ {name}
                    IN  /\ IF IsFile(path)
                           THEN stack' = Append(SetTop([Top EXCEPT !.remaining = rest]),
                                                FileFrame(path, archive_path))
                           ELSE IF IsDir(path)
                           THEN stack' = Append(SetTop([Top EXCEPT !.remaining = rest,
                                                            !.pc = "dir_metadata",
                                                            !.ePath = path,
                                                            !.eApath = archive_path]),
                                                DirFrame(path, archive_path))
                           ELSE stack' = SetTop([Top EXCEPT !.remaining = rest])
                        /\ UNCHANGED << pc, stderr, err, exit_code, i >>
    /\ UNCHANGED << runVars, entries, finishCalls, stdout >>
DirNext ==
    /\ InFrame("dir", "next")
    /\ IF Top.remaining = {}
       THEN /\ Return
            /\ UNCHANGED << pc, stderr, err, exit_code >>
       ELSE \E name \in Top.remaining, ok \in BOOLEAN :
               IF ~ok
               THEN /\ Fail("read_dir entry")
                    /\ UNCHANGED i
               ELSE LET path         == PathJoin(Top.path, name)
                        archive_path == JoinArchivePath(Top.apath, name)
                        rest         == Top.remaining \ {name}
                    IN  /\ IF IsFile(path)
                           THEN stack' = Append(SetTop([Top EXCEPT !.remaining = rest]),
                                                FileFrame(path, archive_path))
                           ELSE IF IsDir(path)
                           THEN stack' = SetTop([Top EXCEPT !.remaining = rest,
                                                            !.pc = "dir_metadata",
                                                            !.ePath = path,
                                                            !.eApath = archive_path])
                           ELSE stack' = SetTop([Top EXCEPT !.remaining = rest])
                        /\ UNCHANGED << pc, stderr, err, exit_code, i >>
    /\ UNCHANGED << runVars, entries, finishCalls, stdout >>

\* One fallible call of the directory path that changes nothing but the position.
DirStep(at, next, what) ==
    /\ InFrame("dir", at)
    /\ \E ok \in BOOLEAN :
          IF ok
          THEN /\ stack' = SetTop([Top EXCEPT !.pc = next])
               /\ UNCHANGED << pc, stderr, err, exit_code >>
          ELSE Fail(what)
    /\ UNCHANGED << runVars, i, entries, finishCalls, stdout >>

\* Line 151: fs::metadata(&path)?
DirMetadata == DirStep("dir_metadata", "dir_mtime", "fs::metadata")

\* Line 152: get_modification_time(&metadata)?
DirMtime == MtimeStep("dir", "dir_mtime", "dir_create")

\* Lines 154-163: the directory entry is built and create()d.
DirCreate ==
    /\ InFrame("dir", "dir_create")
    /\ LET dir_archive_path == DirArchivePath(Top.eApath)
       IN  IF ~CanOpen(entries, dir_archive_path)
           THEN /\ Fail("EntryOpenError")
                /\ UNCHANGED entries
           ELSE \E ok \in BOOLEAN :
                   IF ok
                   THEN /\ entries' = Append(entries,
                              NewDirEntry(dir_archive_path, Top.mtime, Top.ePath, i))
                        /\ stack' = SetTop([Top EXCEPT !.pc = "dir_print"])
                        /\ UNCHANGED << pc, stderr, err, exit_code >>
                   ELSE /\ Fail("create")
                        /\ UNCHANGED entries
    /\ UNCHANGED << runVars, i, finishCalls, stdout >>

\* Lines 164-167: the progress line, then the recursive call; when it
\* returns this frame is back at the head of its loop.
DirReportMutant ==
    /\ InFrame("dir", "dir_print")
    /\ stack' = Append(SetTop([Top EXCEPT !.pc = "next", !.mtime = "unset"]),
                       DirFrame(Top.ePath, Top.eApath))
    /\ UNCHANGED << runVars, pc, i, entries, finishCalls, stdout, stderr, err,
                    exit_code >>
DirReport ==
    /\ InFrame("dir", "dir_print")
    /\ stdout' = Append(stdout, Line("adding", DirArchivePath(Top.eApath)))
    /\ stack' = Append(SetTop([Top EXCEPT !.pc = "next", !.mtime = "unset"]),
                       DirFrame(Top.ePath, Top.eApath))
    /\ UNCHANGED << runVars, pc, i, entries, finishCalls, stderr, err, exit_code >>

---------------------------------------------------------------------------
Next ==
    \/ ParseArgs
    \/ CreateOutput
    \/ MainLoop
    \/ Finish
    \/ Report
    \/ FileMetadata
    \/ FileMtime
    \/ FileOpen
    \/ FileStart
    \/ FileEncoder
    \/ FileCopy
    \/ FileWriterFinish
    \/ FileEncoderFinish
    \/ FileEntryFinish
    \/ FileReport
    \/ DirReadDir
    \/ DirNext
    \/ DirMetadata
    \/ DirMtime
    \/ DirCreate
    \/ DirReport

Spec == Init /\ [][Next]_vars

\* The runs over the linked tree.  The program is one sequential process
\* that the host keeps running: a step that can be taken is taken.
LinkSpec == InitLinks /\ [][Next]_vars /\ WF_vars(Next)

---------------------------------------------------------------------------
(* Vocabulary of the properties *)

Range(q) == { q[k] : k \in DOMAIN q }

Entries == { entries[k] : k \in DOMAIN entries }

FileEntries == { e \in Entries : e.kind = "file" }

DirEntries == { e \in Entries : e.kind = "dir" }

\* The top-level inputs main has read from the command line.
InputIndices == IF pc = "parse" THEN {} ELSE 1..(Len(positional_args) - 1)

DirInputs == { k \in InputIndices : IsDir(input_paths[k]) }

FileInputs == { k \in InputIndices : IsFile(input_paths[k]) }

SkippedInputs == InputIndices \ (DirInputs \cup FileInputs)

RECURSIVE IsUnder(_, _)
IsUnder(n, root) ==
    /\ n # 0
    /\ FS[n].parent # 0
    /\ (FS[n].parent = root \/ IsUnder(FS[n].parent, root))

\* The path of node n relative to its ancestor root, segments joined by "/".
RECURSIVE RelPath(_, _)
RelPath(n, root) ==
    IF FS[n].parent = root THEN FS[n].name
    ELSE RelPath(FS[n].parent, root) \o <<SLASH>> \o FS[n].name

FilesUnder(root) == { n \in Nodes : IsUnder(n, root) /\ FS[n].kind = "file" }

\* The indices of the file entries made from the file at node n.
EntriesOfFile(n) ==
    { k \in DOMAIN entries : entries[k].kind = "file" /\ Lookup(entries[k].src) = n }

\* b is the base name of path p: its last segment, free of slashes.
IsBaseNameOf(b, p) ==
    /\ b # <<>>
    /\ SLASH \notin Range(b)
    /\ Len(b) <= Len(p)
    /\ SubSeq(p, Len(p) - Len(b) + 1, Len(p)) = b
    /\ (Len(b) = Len(p) \/ p[Len(p) - Len(b)] = SLASH)

PrintedSuccess == \E k \in DOMAIN stdout : stdout[k].kind = "success"

---------------------------------------------------------------------------
(* C1 *)

\* C1, as stated: in the archive of a finished run, every regular file
\* under a top-level directory input is the source of exactly one entry of
\* the whole archive, at its path relative to that input.  (Stated for the
\* runs whose output path is a new file, so that the output is not itself
\* one of the files archived.)
C1_ExactlyOnceInArchive ==
    (pc = "done" /\ Lookup(output_path) = 0) =>
        \A k \in DirInputs : \A f \in FilesUnder(Lookup(input_paths[k])) :
            /\ Cardinality(EntriesOfFile(f)) = 1
            /\ \A e \in EntriesOfFile(f) :
                   entries[e].path = RelPath(f, Lookup(input_paths[k]))

\* C1, amended: in the archive of a finished run, the walk of each top-level
\* directory input has written exactly one entry for every regular file under
\* that directory, at the file's path relative to that input with "/" between
\* the segments; a file under several inputs has one entry per such input.
C1_ExactlyOncePerInput ==
    pc = "done" =>
        \A k \in DirInputs : \A f \in FilesUnder(Lookup(input_paths[k])) :
            LET mine == { e \in EntriesOfFile(f) : entries[e].top = k }
            IN  /\ Cardinality(mine) = 1
                /\ \A e \in mine :
                       /\ entries[e].path = RelPath(f, Lookup(input_paths[k]))
                       /\ ~entries[e].open

\* A finished run over the directory x whose archive holds x/d/f as "d/f".
C1_Witness ==
    /\ pc = "done"
    /\ DirInputs # {}
    /\ \E e \in FileEntries :
          /\ e.src = <<"x", "/", "d", "/", "f">>
          /\ e.path = <<"d", "/", "f">>
          /\ e.top \in DirInputs

---------------------------------------------------------------------------
(* C2 *)

\* C2: the entry written for a top-level input that is a regular file is
\* named by the base name of the input path alone, with no parent segment.
C2_TopLevelFileBaseName ==
    LET files == FileInputs
    IN  \A e \in FileEntries :
            (e.top \in files) =>
                /\ e.src = input_paths[e.top]
                /\ IsBaseNameOf(e.path, input_paths[e.top])

\* The input x/d/f, three segments deep, has been written as "f".
C2_Witness ==
    \E e \in FileEntries :
        /\ e.top \in FileInputs
        /\ input_paths[e.top] = <<"x", "/", "d", "/", "f">>
        /\ e.path = <<"f">>
        /\ ~e.open

---------------------------------------------------------------------------
(* C3 *)

\* C3: the walk of a top-level directory input writes no entry for that
\* directory itself, and names each direct child by its bare name, with a
\* trailing "/" for a child directory.
C3_NoWrappingEntry ==
    LET dirs == DirInputs
    IN  \A e \in Entries :
            (e.top \in dirs) =>
                LET root == Lookup(input_paths[e.top])
                    n    == Lookup(e.src)
                IN  /\ n # root
                    /\ IsUnder(n, root)
                    /\ FS[n].parent = root =>
                           e.path = IF e.kind = "dir" THEN FS[n].name \o <<SLASH>>
                                    ELSE FS[n].name

\* Both kinds of direct child of the input x have been written: the
\* directory d as "d/" and the file g\ under its bare name.
C3_Witness ==
    /\ \E e \in DirEntries : e.top \in DirInputs /\ e.path = <<"d", SLASH>>
    /\ \E e \in FileEntries : e.top \in DirInputs /\ e.path = <<"g", "\\">>

---------------------------------------------------------------------------
(* C4 *)

\* C4: every directory entry of the archive has a name ending in "/" and no
\* content: no chunk was ever written into it and no encoder was ever
\* finished on it; it is complete as soon as it exists.
C4_DirEntriesSlashAndEmpty ==
    \A e \in DirEntries :
        /\ e.path # <<>>
        /\ e.path[Len(e.path)] = SLASH
        /\ e.data = 0
        /\ e.dataDone = 0
        /\ e.codecFin = 0
        /\ e.entryFin = 1
        /\ ~e.open

\* The archive holds the nested directory entry "d/" and, written after it,
\* a file entry with content.
C4_Witness ==
    \E j, k \in DOMAIN entries :
        /\ j < k
        /\ entries[j].kind = "dir"
        /\ entries[j].path = <<"d", SLASH>>
        /\ entries[k].kind = "file"
        /\ entries[k].data > 0

---------------------------------------------------------------------------
(* C5 *)

\* The state main is in when it is about to examine an input that is
\* neither a regular file nor a directory.
AtSkippedInput ==
    /\ pc = "loop"
    /\ stack = <<>>
    /\ i <= Len(input_paths)
    /\ i \in SkippedInputs

\* C5: examining a top-level input that is neither a file nor a directory
\* only prints a warning and moves on to the next input, with no error and
\* the archive untouched; such inputs leave no entry; and a run that ends
\* without a fatal error has archived every valid input, those after a
\* skipped one included, and has finalized the archive.
C5_SkipIsNotFatal ==
    /\ [][AtSkippedInput =>
            /\ pc' = "loop"
            /\ i' = i + 1
            /\ err' = "none"
            /\ exit_code' = exit_code
            /\ stderr' = Append(stderr, Line("warning", input_paths[i]))
            /\ UNCHANGED << entries, stack, stdout, finishCalls >>]_vars
    /\ [](LET skipped == SkippedInputs
          IN  \A e \in Entries : e.top \notin skipped)
    /\ [](pc = "done" =>
            /\ finishCalls = 1
            /\ \A k \in FileInputs : \E e \in FileEntries : e.top = k /\ ~e.open
            /\ \A k \in DirInputs : \A f \in FilesUnder(Lookup(input_paths[k])) :
                   \E e \in EntriesOfFile(f) : entries[e].top = k /\ ~entries[e].open)

\* A finished run whose first input was skipped with a warning and whose
\* second input, a directory, is in the archive.
C5_Witness ==
    /\ pc = "done"
    /\ 1 \in SkippedInputs
    /\ 2 \in DirInputs
    /\ \E k \in DOMAIN stderr : stderr[k] = Line("warning", input_paths[1])
    /\ \E e \in FileEntries : e.top = 2 /\ ~e.open /\ e.data = 2

---------------------------------------------------------------------------
(* C6 *)

\* C6: at most one entry is open at any time, the writer never has to
\* refuse an entry because another one is open, and a step that opens an
\* entry starts with every earlier entry finalized.
C6_AtMostOneOpenEntry ==
    /\ [](Cardinality(OpenEntries(entries)) <= 1)
    /\ [](err # "EntryOpenError")
    /\ [][Len(entries') > Len(entries) =>
            \A k \in DOMAIN entries : ~entries[k].open /\ entries[k].entryFin = 1]_vars

\* A third entry is open while the two before it are finalized.
C6_Witness ==
    /\ Len(entries) >= 3
    /\ OpenEntries(entries) = {Len(entries)}
    /\ \A k \in 1..(Len(entries) - 1) : entries[k].entryFin = 1

---------------------------------------------------------------------------
(* C7 *)

\* C7: on every file entry each finish happens at most once and in order:
\* the data writer and the codec are finished only when all the chunks of
\* the source have been written, the entry is finished only when the codec
\* has been, and an entry that add_file_to_archive completed (it is closed)
\* has had all three exactly once.  After the codec's finish no chunk is
\* written.
C7_TwoPhaseFinalize ==
    /\ [](\A e \in FileEntries :
            /\ e.dataDone <= 1 /\ e.codecFin <= 1 /\ e.entryFin <= 1
            /\ e.data <= FileSize(e.src)
            /\ e.dataDone = 1 => e.data = FileSize(e.src)
            /\ e.codecFin = 1 => e.dataDone = 1
            /\ e.entryFin = 1 => e.codecFin = 1
            /\ e.open <=> e.entryFin = 0)
    /\ [][\A k \in DOMAIN entries :
            entries[k].codecFin = 1 => entries'[k].data = entries[k].data]_vars

\* A two-chunk file has been streamed, its codec finished and its entry
\* finished.
C7_Witness ==
    \E e \in FileEntries :
        e.data = 2 /\ e.dataDone = 1 /\ e.codecFin = 1 /\ e.entryFin = 1 /\ ~e.open

---------------------------------------------------------------------------
(* C8 *)

\* C8: a fatal error ends the run at the top level: the state it leaves has
\* no frame, exit status 1 and a diagnostic, the archive was not finished
\* and no success message was printed; and no step follows it, so no entry
\* is opened or written after it.
C8_FatalErrorStopsEverything ==
    /\ [](err # "none" =>
            /\ pc = "failed"
            /\ stack = <<>>
            /\ exit_code = 1
            /\ finishCalls = 0
            /\ ~PrintedSuccess
            /\ stderr # <<>> /\ stderr[Len(stderr)] = Line("error", <<err>>))
    /\ [](pc = "failed" => err # "none")
    /\ [][err = "none"]_vars

\* A run that failed in the middle of an entry, after an earlier entry had
\* been completed.
C8_Witness ==
    /\ pc = "failed"
    /\ err = "io::copy"
    /\ Len(entries) >= 2
    /\ entries[Len(entries)].open
    /\ entries[Len(entries)].data = 1

---------------------------------------------------------------------------
(* C9 *)

\* C9: the archive is finished at most once, and only when main has gone
\* through every input, no call is in progress and every entry is
\* finalized; a run that ends without a fatal error has finished it exactly
\* once; the success message is printed only after that; and no step after
\* the finish touches the entries.
C9_FinishedOnceAtTheEnd ==
    /\ [](finishCalls <= 1)
    /\ [](finishCalls = 1 =>
            /\ pc \in {"report", "done"}
            /\ i = Len(input_paths) + 1
            /\ stack = <<>>
            /\ OpenEntries(entries) = {}
            /\ err = "none")
    /\ [](PrintedSuccess => finishCalls = 1 /\ pc = "done")
    /\ [](pc = "done" => finishCalls = 1 /\ PrintedSuccess /\ exit_code = 0)
    /\ [][finishCalls = 1 => entries' = entries]_vars

\* A finished run over two inputs with the success message printed.
C9_Witness ==
    /\ pc = "done"
    /\ Len(input_paths) = 2
    /\ Len(entries) >= 2
    /\ stdout[Len(stdout)] = Line("success", output_path)

---------------------------------------------------------------------------
(* C10 *)

\* The arguments that are not "--zstd".
NonFlagArgs == { k \in 2..Len(args) : args[k] # ZstdFlag }

\* C10: with fewer than two arguments other than "--zstd", main goes from
\* parsing straight to exit(1) with the usage as its only output: the output
\* file is not created, no input is examined, nothing is written.
C10_UsageErrorBeforeAnyIO ==
    Cardinality(NonFlagArgs) < 2 =>
        /\ pc \in {"parse", "exited"}
        /\ ~outputCreated
        /\ i = 1
        /\ stack = <<>>
        /\ entries = <<>>
        /\ finishCalls = 0
        /\ stdout = <<>>
        /\ err = "none"
        /\ pc = "parse" => stderr = <<>> /\ exit_code = 0 - 1
        /\ pc = "exited" => stderr = <<Line("usage", args[1])>> /\ exit_code = 1

\* The run of "w --zstd o --zstd" has exited with the usage.
C10_Witness ==
    /\ pc = "exited"
    /\ Cardinality(NonFlagArgs) = 1
    /\ Len(args) = 4
    /\ exit_code = 1

---------------------------------------------------------------------------
(* C11 *)

\* "--zstd" is somewhere among the arguments.
FlagGiven == \E k \in 2..Len(args) : args[k] = ZstdFlag

ChosenMethod == IF FlagGiven THEN "Zstd" ELSE "Deflate"

ChosenEncoder == IF FlagGiven THEN "zstd::Encoder" ELSE "flate2::DeflateEncoder"

\* C11: once main is past line 36 the method is Zstd if "--zstd" is among
\* the arguments, wherever it stands, and Deflate otherwise, and it never
\* changes; every file entry is declared with it, and the encoder wrapped
\* around an entry, the only way its chunks are written, is the one of the
\* method declared on it.
C11_MethodFixedAndMatched ==
    /\ [](pc \notin {"parse", "exited"} => compression_method = ChosenMethod)
    /\ [](\A e \in FileEntries :
            /\ e.method = ChosenMethod
            /\ e.encoder \in {"none", ChosenEncoder}
            /\ e.data > 0 \/ e.dataDone > 0 \/ e.codecFin > 0 => e.encoder = ChosenEncoder)
    /\ [][pc # "parse" => compression_method' = compression_method]_vars

\* The flag stands last, after the paths, and a two-chunk file has been
\* written through the zstd encoder into an entry declared Zstd.
C11_Witness ==
    /\ Len(args) = 4
    /\ args[4] = ZstdFlag
    /\ \E e \in FileEntries :
          e.method = "Zstd" /\ e.encoder = "zstd::Encoder" /\ e.data = 2 /\ ~e.open

---------------------------------------------------------------------------
(* C12 *)

\* A call of get_modification_time is about to be made.
AtMtime == InFrame("file", "mtime") \/ InFrame("dir", "dir_mtime")

\* C12, as stated: a modification time that cannot be read or lies before
\* the epoch never ends the run; the traversal goes on.
C12_MtimeFailureDoesNotAbort == err # "get_modification_time"

\* C12, amended: when an entry's modification time cannot be read or lies
\* before the epoch, the error is fatal: the call returns it before any
\* entry is opened for that path, the traversal is aborted with the entries
\* untouched and none of them open, the archive is never finished and no
\* success is reported; no entry is ever written without its modification
\* time.
C12_MtimeFailureIsFatal ==
    /\ [](\A e \in Entries : e.mtime = "Some")
    /\ [][AtMtime =>
            \/ /\ err' = "none"
               /\ pc' = pc
               /\ Len(stack') = Len(stack)
               /\ stack'[Len(stack')].mtime = "Some"
               /\ entries' = entries
            \/ /\ err' = "get_modification_time"
               /\ pc' = "failed"
               /\ stack' = <<>>
               /\ entries' = entries]_vars
    /\ [](err = "get_modification_time" =>
            /\ pc = "failed"
            /\ exit_code = 1
            /\ finishCalls = 0
            /\ ~PrintedSuccess
            /\ OpenEntries(entries) = {})

\* The run was aborted by a modification time after it had completed an
\* entry, with a second input never visited.
C12_Witness ==
    /\ err = "get_modification_time"
    /\ pc = "failed"
    /\ Len(entries) >= 1
    /\ i = 1
    /\ Len(input_paths) = 2

---------------------------------------------------------------------------
(* C13 *)

BACKSLASH == "\\"

\* The archive paths the archive writer has been given.
PassedPaths == { e.path : e \in Entries }

\* q has an empty segment: it starts with "/" or holds "//".
HasEmptySegment(q) ==
    \/ q = <<>>
    \/ q[1] = SLASH
    \/ \E k \in 1..(Len(q) - 1) : q[k] = SLASH /\ q[k + 1] = SLASH

\* C13, as stated: no archive path given to the writer holds a backslash or
\* starts with "/".
C13_NoBackslashNoLeadingSlash ==
    \A q \in PassedPaths : BACKSLASH \notin Range(q) /\ q[1] # SLASH

\* C13, amended: every archive path given to the writer has no leading "/"
\* and no empty segment, and is the base path joined with the entry's name
\* by "/": for an entry of a directory input its segments are the names on
\* disk from below the input down to the entry, unchanged, and for a file
\* input it is the single base name.  A backslash is in an archive path
\* exactly when it is in one of those names.
C13_JoinedWithSlashOnly ==
    LET dirs  == DirInputs
        files == FileInputs
    IN  \A e \in Entries :
            /\ ~HasEmptySegment(e.path)
            /\ e.top \in dirs =>
                   LET rel == RelPath(Lookup(e.src), Lookup(input_paths[e.top]))
                   IN  e.path = IF e.kind = "dir" THEN rel \o <<SLASH>> ELSE rel
            /\ e.top \in files => SLASH \notin Range(e.path)
            /\ BACKSLASH \in Range(e.path) <=> BACKSLASH \in Range(e.src)

\* The file named g\ has been given to the writer under that name, and the
\* nested file as "d/f".
C13_Witness ==
    /\ <<"g", BACKSLASH>> \in PassedPaths
    /\ <<"d", SLASH, "f">> \in PassedPaths

---------------------------------------------------------------------------
(* C14 *)

\* Path p lies below directory path q.
PathUnder(p, q) ==
    /\ Len(p) > Len(q) + 1
    /\ SubSeq(p, 1, Len(q)) = q
    /\ p[Len(q) + 1] = SLASH

\* Entry k was made, for the same top-level input, from a path below the
\* directory entry j was made from.
InSubtree(k, j) ==
    /\ entries[k].top = entries[j].top
    /\ PathUnder(entries[k].src, entries[j].src)

\* C14: the entries follow the command line order of their top-level
\* inputs; a directory's own entry is complete when it exists and precedes
\* every entry of its subtree; and the subtree's entries follow it without
\* interruption, hence before the entry of any sibling listed later.
C14_PreOrder ==
    /\ \A j, k \in DOMAIN entries : j < k => entries[j].top <= entries[k].top
    /\ \A j \in DOMAIN entries :
          entries[j].kind = "dir" =>
              /\ ~entries[j].open
              /\ \A k \in DOMAIN entries :
                    InSubtree(k, j) =>
                        /\ j < k
                        /\ \A l \in (j + 1)..k : InSubtree(l, j)

\* The directory d was listed before its sibling g\: the archive holds
\* "d/", then "d/f", then "g\".
C14_Witness ==
    \E j \in DOMAIN entries :
        /\ j + 2 <= Len(entries)
        /\ entries[j].path = <<"d", SLASH>>
        /\ entries[j + 1].path = <<"d", SLASH, "f">>
        /\ entries[j + 2].path = <<"g", BACKSLASH>>
        /\ ~entries[j + 2].open

---------------------------------------------------------------------------
(* C15 *)

\* main has returned or exited.
Terminated == pc \in {"done", "failed", "exited"}

\* The directory frames of the stack.
DirDepth == Cardinality({ k \in DOMAIN stack : stack[k].fn = "dir" })

\* C15: every run ends, with the archive finished or with a fatal error
\* (or with the usage message before any input is taken), also over a tree
\* in which the child l of y is a link to y: the walk re-enters y through
\* the link until the host refuses to resolve one more link, so the
\* recursion is never deeper than that limit allows.
C15_AlwaysEnds ==
    /\ <>Terminated
    /\ (pc = "loop") ~> (pc = "done" \/ pc = "failed")
    /\ [](DirDepth <= MaxSymlinks + 1)

\* A run over y has ended well after walking into the link MaxSymlinks
\* times: the file h was archived through that many links.
C15_Witness ==
    /\ pc = "done"
    /\ \E e \in Entries :
          /\ e.kind = "file"
          /\ Len(e.path) = 2 * MaxSymlinks + 1
          /\ e.path[Len(e.path)] = "h"
          /\ ~e.open

---------------------------------------------------------------------------
(* C16 *)

\* The progress lines printed so far, in order.
Adds == SelectSeq(stdout, LAMBDA l : l.kind = "adding")

\* The entries whose finalize step has succeeded.
Finalized == { k \in DOMAIN entries : entries[k].entryFin = 1 /\ ~entries[k].open }

\* C16: the n-th progress line names the n-th entry, and that entry is
\* finalized; there are never more lines than finalized entries; a finalized
\* entry lacks its line only until the next step prints it; at the end of
\* a run, good or bad, the lines and the finalized entries are the same in
\* number, so an entry that failed to open, stream or finalize has none.
C16_ProgressOncePerCompletedEntry ==
    LET adds == Adds
        fin  == Cardinality(Finalized)
    IN  /\ Len(adds) <= fin
        /\ fin <= Len(adds) + 1
        /\ \A n \in DOMAIN adds :
              /\ n \in Finalized
              /\ adds[n].text = entries[n].path
        /\ fin = Len(adds) + 1 =>
              InFrame("file", "print") \/ InFrame("dir", "dir_print")
        /\ pc \in {"finish", "report", "done", "failed"} => Len(adds) = fin

\* A run has failed while streaming its third entry: two progress lines,
\* three entries.
C16_Witness ==
    /\ pc = "failed"
    /\ err = "io::copy"
    /\ Len(entries) = 3
    /\ Len(Adds) = 2
    /\ entries[3].open

---------------------------------------------------------------------------
(* C17 *)

\* What is at path is neither a regular file nor a directory for the
\* program: a special file, a link that does not resolve, or nothing.
NeitherFileNorDir(path) ==
    /\ ~IsOutput(path)
    /\ KindOf(Lookup(path)) \notin {"file", "dir"}

\* This step of the loop of add_directory_to_archive takes name from the
\* listing of the directory at hand.
TakesChild(name) ==
    /\ InFrame("dir", "next")
    /\ name \in Top.remaining
    /\ Len(stack') >= Len(stack)
    /\ stack'[Len(stack)].remaining = Top.remaining \ {name}

\* C17: the step that takes a child that is neither a file nor a directory
\* leaves the frame at the head of its loop with only that child removed
\* from the listing, and changes nothing else: no entry, no line on either
\* stream, no error.  No entry is ever made from such a path, and every
\* warning is about a top-level input.
C17_SpecialChildSkippedSilently ==
    /\ [][\A name \in (IF InFrame("dir", "next") THEN Top.remaining ELSE {}) :
             (TakesChild(name) /\ NeitherFileNorDir(PathJoin(Top.path, name))) =>
                 /\ stack' = SetTop([Top EXCEPT !.remaining = @ \ {name}])
                 /\ UNCHANGED << runVars, pc, i, entries, finishCalls, stdout,
                                 stderr, err, exit_code >>]_vars
    /\ [](\A e \in Entries : ~NeitherFileNorDir(e.src))
    /\ [](\A k \in DOMAIN stderr :
             stderr[k].kind = "warning" => stderr[k].text \in Range(input_paths))

\* The walk of x/d took the special file s first and went on to the file
\* f: nothing was printed or written for s.
C17_Witness ==
    /\ Len(stack) >= 2
    /\ Top.fn = "file"
    /\ Top.path = <<"x", SLASH, "d", SLASH, "f">>
    /\ stack[Len(stack) - 1].remaining = {}
    /\ stderr = <<>>
    /\ \A e \in Entries : e.src # <<"x", SLASH, "d", SLASH, "s">>

---------------------------------------------------------------------------
(* C18 *)

Supported == {"Deflate", "Zstd"}

\* C18: once main has chosen it, the method is Deflate or Zstd, so it is one
\* of the two whenever add_file_to_archive runs and for every file entry
\* opened; no run ends with "Unsupported compression method", and an entry
\* left open by a failed run was left by a failure of its encoder, its copy
\* or one of its finish calls.
C18_MethodAlwaysSupported ==
    /\ pc \notin {"parse", "exited"} => compression_method \in Supported
    /\ (\E k \in DOMAIN stack : stack[k].fn = "file") => compression_method \in Supported
    /\ \A e \in FileEntries : e.method \in Supported
    /\ err # "Unsupported compression method"
    /\ \A e \in Entries :
          e.open /\ pc = "failed" =>
              err \in {"zstd::Encoder::new", "io::copy", "writer.finish",
                       "encoder.finish", "entry.finish"}

\* add_file_to_archive is past its match with the default method, inside
\* the entry it opened.
C18_Witness ==
    /\ InFrame("file", "copy")
    /\ compression_method = "Deflate"
    /\ ~use_zstd
    /\ entries[Top.eidx].open
    /\ entries[Top.eidx].encoder = "flate2::DeflateEncoder"

---------------------------------------------------------------------------
(* C19 *)

HasWarning == \E k \in DOMAIN stderr : stderr[k].kind = "warning"

\* Something has been done with an input path.
InputExamined == i > 1 \/ stack # <<>> \/ entries # <<>> \/ HasWarning

AllInputsSkipped == InputIndices # {} /\ SkippedInputs = InputIndices

\* C19: whenever main is at or past its loop, and whenever any input has
\* been examined, the output file has been created; a run that fails before
\* that fails in File::create with no input examined.  When every input is
\* skipped the run can only fail in archive.finish, and when it ends well
\* the archive was finished once with no entry and the success line was
\* printed.
C19_OutputFirstAndEmptyArchive ==
    /\ pc \in {"loop", "finish", "report", "done"} => outputCreated
    /\ InputExamined => outputCreated
    /\ (pc = "failed" /\ ~outputCreated) => err = "File::create"
    /\ (outputCreated /\ AllInputsSkipped) =>
          /\ entries = <<>>
          /\ pc = "failed" => err = "archive.finish"
          /\ pc = "done" =>
                /\ finishCalls = 1
                /\ PrintedSuccess
                /\ exit_code = 0
                /\ err = "none"
                /\ Len(stderr) = Len(input_paths)

\* A run with two inputs, both skipped, has ended well with an empty
\* archive.
C19_Witness ==
    /\ pc = "done"
    /\ Len(input_paths) = 2
    /\ AllInputsSkipped
    /\ entries = <<>>
    /\ PrintedSuccess

====
